---- MODULE Spec2Model ----
(***************************************************************************)
(* Config-file monitors of uptime-kuma-revanced: the reconciliation of the  *)
(* monitors declared in monitors.yaml with the monitor table and with the   *)
(* live monitor list (server.monitorList).                                  *)
(*                                                                          *)
(* JavaScript runs one callback at a time and lets another one in only at   *)
(* an await, so every action below is the code between two awaits of one    *)
(* async function.  A store query or write takes effect in the action that  *)
(* resumes after its await.                                                 *)
(***************************************************************************)
EXTENDS Integers, Sequences, FiniteSets, TLC

(***************************************************************************)
(* Values.  A monitor definition and a monitor row are functions from field *)
(* names to values; a field that is not in the DOMAIN is undefined.         *)
(* String fields hold strings (Null is YAML's null), numeric fields hold    *)
(* integers, flags hold booleans.  The fields that may hold either a text   *)
(* or a list (accepted_statuscodes and the JSON fields) hold Str(..) or     *)
(* Arr(..); Json(..) is the text JSON.stringify makes of a list.            *)
(***************************************************************************)
Null == "<null>"
Undefined == "undefined"

Str(s) == [str |-> s]
Arr(a) == [arr |-> a]
Json(a) == [json |-> a]

isArray(v) == DOMAIN v = {"arr"}
isString(v) == DOMAIN v \in {{"str"}, {"json"}}

\* JSON.stringify of a list value
JSONstringify(v) == Json(v.arr)

\* { ...a, ...b }
Spread(a, b) ==
    [f \in DOMAIN a \cup DOMAIN b |-> IF f \in DOMAIN b THEN b[f] ELSE a[f]]

\* delete o[f]
Delete(o, f) == [g \in DOMAIN o \ {f} |-> o[g]]

\* o[f] = v
Assign(o, f, v) == [g \in DOMAIN o \cup {f} |-> IF g = f THEN v ELSE o[g]]

MONITOR_DEFAULTS ==
    [ active |-> TRUE,
      interval |-> 60,
      retryInterval |-> 60,
      maxretries |-> 0,
      timeout |-> 48,
      resendInterval |-> 0,
      upsideDown |-> FALSE,
      ignoreTls |-> FALSE,
      maxredirects |-> 10,
      accepted_statuscodes |-> Arr(<<"200-299">>),
      method |-> "GET",
      httpBodyEncoding |-> "json",
      kafkaProducerBrokers |-> Str("[]"),
      kafkaProducerSaslOptions |-> Str("{}"),
      rabbitmqNodes |-> Str("[]"),
      conditions |-> Str("[]") ]

REQUIRED_FIELDS_BY_TYPE ==
    [ http |-> <<"url">>,
      keyword |-> <<"url", "keyword">>,
      ping |-> <<"hostname">>,
      port |-> <<"hostname", "port">>,
      dns |-> <<"hostname", "dns_resolve_server">>,
      push |-> <<>>,
      steam |-> <<"hostname", "port">>,
      gamedig |-> <<"hostname", "port", "game">>,
      mqtt |-> <<"hostname", "port", "mqttTopic">>,
      sqlserver |-> <<"databaseConnectionString">>,
      postgres |-> <<"databaseConnectionString">>,
      mysql |-> <<"databaseConnectionString">>,
      mongodb |-> <<"databaseConnectionString">>,
      radius |-> <<"hostname", "radiusUsername", "radiusPassword", "radiusSecret">>,
      redis |-> <<"databaseConnectionString">>,
      group |-> <<>>,
      docker |-> <<"docker_container", "docker_host">>,
      grpc |-> <<"grpcUrl", "grpcServiceName", "grpcMethod">>,
      snmp |-> <<"hostname", "snmpOid">>,
      smtp |-> <<"hostname", "port">>,
      rabbitmq |-> <<"rabbitmqNodes">> ]
    @@ ("json-query" :> <<"url", "jsonPath", "expectedValue">>)
    @@ ("real-browser" :> <<"url">>)

IntervalMin == 20
IntervalMax == 86400

\* the fields whose values are Str/Arr
ListFields ==
    {"accepted_statuscodes", "kafkaProducerBrokers", "kafkaProducerSaslOptions",
     "rabbitmqNodes", "conditions"}

\* monitorConfig[field] === undefined || === null || === ""
fieldMissing(monitorConfig, field) ==
    \/ field \notin DOMAIN monitorConfig
    \/ IF field \in ListFields
          THEN monitorConfig[field] = Str("")
          ELSE monitorConfig[field] \in {Null, ""}

\* !monitorConfig[field] for a string field
falsy(monitorConfig, field) ==
    \/ field \notin DOMAIN monitorConfig
    \/ monitorConfig[field] \in {Null, ""}

\* the name as a template literal prints it
nameOf(monitorConfig) ==
    IF "name" \in DOMAIN monitorConfig THEN monitorConfig.name ELSE Undefined

\* one error string: what it says, and the index, name and field it names
Err(kind, index, name, field) ==
    [kind |-> kind, index |-> index, name |-> name, field |-> field]

\* what ToNumber makes of a value that is no number (interval: soon, interval: .nan):
\* NaN, written as an integer that no interval of a file is
NaN == -2147483647

\* a < b and a > b of JavaScript on numbers: false when either side is NaN
lessThan(a, b) == a # NaN /\ b # NaN /\ a < b
greaterThan(a, b) == a # NaN /\ b # NaN /\ a > b

validateMonitorConfig(monitorConfig, index) ==
    LET nameErr ==
            IF falsy(monitorConfig, "name")
               THEN <<Err("name is required", index, "", "")>>
               ELSE <<>>
        typeErr ==
            IF falsy(monitorConfig, "type")
               THEN <<Err("type is required", index, "", "")>>
               ELSE IF monitorConfig.type \notin DOMAIN REQUIRED_FIELDS_BY_TYPE
                  THEN <<Err("Unknown monitor type", -1, nameOf(monitorConfig), "")>>
                  ELSE LET requiredFields == REQUIRED_FIELDS_BY_TYPE[monitorConfig.type]
                           missing(field) == fieldMissing(monitorConfig, field)
                           lacking == SelectSeq(requiredFields, missing)
                       IN  [k \in 1..Len(lacking) |->
                              Err("Field is required", -1, nameOf(monitorConfig), lacking[k])]
        intervalErr ==
            IF "interval" \in DOMAIN monitorConfig
               THEN (IF lessThan(monitorConfig.interval, IntervalMin)
                        THEN <<Err("interval must be at least", -1, nameOf(monitorConfig), "interval")>>
                        ELSE <<>>)
                    \o
                    (IF greaterThan(monitorConfig.interval, IntervalMax)
                        THEN <<Err("interval must be at most", -1, nameOf(monitorConfig), "interval")>>
                        ELSE <<>>)
               ELSE <<>>
        retryErr ==
            IF "retryInterval" \in DOMAIN monitorConfig
               THEN (IF lessThan(monitorConfig.retryInterval, IntervalMin)
                        THEN <<Err("retryInterval must be at least", -1, nameOf(monitorConfig), "retryInterval")>>
                        ELSE <<>>)
                    \o
                    (IF greaterThan(monitorConfig.retryInterval, IntervalMax)
                        THEN <<Err("retryInterval must be at most", -1, nameOf(monitorConfig), "retryInterval")>>
                        ELSE <<>>)
               ELSE <<>>
        errors == nameErr \o typeErr \o intervalErr \o retryErr
    IN  [valid |-> errors = <<>>, errors |-> errors]

jsonFields == <<"kafkaProducerBrokers", "kafkaProducerSaslOptions", "rabbitmqNodes", "conditions">>

RECURSIVE stringifyFields(_, _)
stringifyFields(monitor, k) ==
    IF k > Len(jsonFields)
       THEN monitor
       ELSE LET field == jsonFields[k]
            IN  IF field \in DOMAIN monitor /\ ~isString(monitor[field])
                   THEN stringifyFields(Assign(monitor, field, JSONstringify(monitor[field])), k + 1)
                   ELSE stringifyFields(monitor, k + 1)

configToMonitorBean(config, userId) ==
    LET monitor == Spread(MONITOR_DEFAULTS, config)
        codes == monitor.accepted_statuscodes
        withJson ==
            IF isArray(codes)
               THEN Assign(monitor, "accepted_statuscodes_json", JSONstringify(codes))
               ELSE IF isString(codes)
                  THEN Assign(monitor, "accepted_statuscodes_json", codes)
                  ELSE monitor
        noCodes == Delete(withJson, "accepted_statuscodes")
        texts == stringifyFields(noCodes, 1)
    IN  Assign(Assign(texts, "user_id", userId), "config_managed", TRUE)

(***************************************************************************)
(* The declared monitors the model draws the file's content from.           *)
(***************************************************************************)
a1 == [name |-> "A", type |-> "http", url |-> "https://test1.com"]
a2 == [name |-> "A", type |-> "http", url |-> "https://test1-updated.com", interval |-> 90]
a0 == [name |-> "A", type |-> "http", url |-> "https://test1.com", active |-> FALSE,
       description |-> "paused", retryInterval |-> NaN]
b1 == [name |-> "B", type |-> "ping", hostname |-> "1.1.1.1"]
c1 == [name |-> "C", type |-> "port", hostname |-> "localhost", port |-> "8080",
       id |-> 2, user_id |-> 2, config_managed |-> FALSE]
noUrl == [name |-> "A", type |-> "http"]
noName == [type |-> "ping", hostname |-> "", interval |-> 10]

MonitorLists ==
    { <<a1, b1>>, <<a2, c1>>, <<a1, a2>>, <<a0>>, <<b1, noUrl>>, <<noName, noUrl>> }

\* what a read of an existing file finds: text yaml.load throws on, a document
\* with no monitors section, or a document with a list of monitors
Contents ==
    { [state |-> s, monitors |-> <<>>] : s \in {"malformed", "nomonitors"} }
    \cup { [state |-> "ok", monitors |-> m] : m \in MonitorLists }

(***************************************************************************)
(* Bounds of the model.                                                     *)
(***************************************************************************)
\* reconciliation cycles and sweeps started in one run
MaxCycles == 2
\* collaborator calls (store, task start, task stop) that fail in one run
MaxFailures == 1

(***************************************************************************)
(* State.                                                                   *)
(***************************************************************************)
\* the user the server syncs for (the first user), and another user
Owner == 1
OtherUser == 2

\* the three stimuli of a reconciliation, each an async call chain
Procs == {"startup", "watcher", "manual"}

VARIABLES
    envPath,      \* process.env.uptime_kuma_revanced_MONITORS_YAML_PATH is set
    file,         \* whether a file is at the configured path: "absent" or "present"
    db,           \* the monitor table: a set of rows
    nextId,       \* the table's auto-increment counter
    monitorList,  \* server.monitorList: row id -> the bean registered under it
    started,      \* the beans whose start() was called and stop() was not since
    watching,     \* what startFileWatcher watches: "none", "file", "dir" or "stopped"
    cycles,       \* cycles and sweeps started so far
    failures,     \* collaborator failures so far
    serial,       \* history: no cycle has begun while another was in flight
    proc,         \* the locals of each call chain
    filename,     \* the base name of the configured path
    reply,        \* what the socket handler last passed to its callback
    dirWatchers,  \* the open fs.watch handles on the containing directory
    dirEvents,    \* "rename" events for the file's name not yet delivered to them
    debounceTimer,\* the module's debounceTimer: 0 (null) or the last timer set
    timers,       \* the timers set and neither cleared nor expired
    inflight,     \* the watcher callbacks awaiting their sync or sweep, by kind
    notified,     \* history: calls of the file watch's listener so far
    invoked,      \* history: runs of the debounced callback so far
    bursts,       \* history: notifications that found no timer pending so far
    checked,      \* the definition given to validateMonitorConfig
    verdict,      \* what validateMonitorConfig returned for it
    raised,       \* a callback of the watcher has ended with an exception nothing caught
    socket        \* the client's socket: its id, and its userID while it is logged in

\* the variables the reconciliation's steps leave alone: the watcher's timers and
\* handles, and the validator's input and output
aside == <<dirWatchers, dirEvents, debounceTimer, timers, inflight, notified, invoked, bursts,
           checked, verdict, raised, socket>>

vars == <<envPath, file, db, nextId, monitorList, started, watching, cycles, failures, serial, proc,
          filename, reply, aside>>

ZeroResult == [added |-> 0, updated |-> 0, removed |-> 0, errors |-> <<>>]

\* the locals of syncConfigMonitors (and of the watcher's sweep); the rest is
\* history: `source' what the cycle found at the path, `before' and `rows' the
\* names of the owner's managed rows and the rows when it began, `tried' the
\* indices of the monitors it has called findOrCreateMonitor for, `swept' the
\* indices of the existing monitors it has set about removing
IdleLocals ==
    [ pc |-> "idle", monitors |-> <<>>, existingMonitors |-> <<>>, i |-> 0, k |-> 0,
      bean |-> <<>>, isNew |-> FALSE, result |-> ZeroResult, cycle |-> 0,
      chain |-> "", source |-> "", before |-> {}, rows |-> {}, tried |-> <<>>,
      swept |-> <<>> ]

\* the base names the configured path may have: the default data/monitors.yaml,
\* or a path of the operator's choice
FileNames == {"monitors.yaml", "custom.yaml"}

\* no callback of the socket handler yet
NoReply == [ok |-> "none"]

\* the watcher's and the validator's variables before anything has happened
AsideInit ==
    /\ dirWatchers = 0
    /\ dirEvents = 0
    /\ debounceTimer = 0
    /\ timers = {}
    /\ inflight = [sync |-> 0, sweep |-> 0, dirSync |-> 0]
    /\ notified = 0
    /\ invoked = 0
    /\ bursts = 0
    /\ checked = <<>>
    /\ verdict = <<>>
    /\ raised = FALSE
    /\ socket = [id |-> "s1", userID |-> Owner]

\* rows that exist before the server starts: one made in the UI, one that
\* another user's sync made, both with a running task
uiRow ==
    [ id |-> 1, name |-> "A", type |-> "http", url |-> "https://ui.example",
      user_id |-> Owner, config_managed |-> FALSE, active |-> TRUE ]
otherRow ==
    [ id |-> 2, name |-> "B", type |-> "ping", hostname |-> "9.9.9.9",
      user_id |-> OtherUser, config_managed |-> TRUE, active |-> TRUE ]

\* a bean: the row it is for, and the cycle and iteration that made it
Bean(id, cycle, i) == [id |-> id, cycle |-> cycle, i |-> i]

\* bean.start(io) and bean.stop(): the task of the bean runs from the call of
\* start to the call of stop
beanStart(beans, bean) == beans \cup {bean}
beanStop(beans, bean) == beans \ {bean}

InFlight(l) == l.pc \notin {"idle", "done", "threw", "exited"}

\* the server starts on a table that holds no managed row of the owner yet, or
\* the two that an earlier run's sync of <<a1, b1>> made; the server has
\* registered and started a bean for every active row
Init ==
    /\ envPath \in BOOLEAN
    /\ file \in {"absent", "present"}
    /\ (~envPath => file = "absent")
    /\ \E kept \in {{}, {Assign(configToMonitorBean(a1, Owner), "id", 3),
                         Assign(configToMonitorBean(b1, Owner), "id", 4)}} :
        /\ db = {uiRow, otherRow} \cup kept
        /\ nextId = 3 + Cardinality(kept)
        /\ monitorList = [id \in {r.id : r \in {uiRow, otherRow} \cup kept} |-> Bean(id, 0, id)]
        /\ started = {Bean(r.id, 0, r.id) : r \in {uiRow, otherRow} \cup kept}
    /\ watching = "none"
    /\ cycles = 0
    /\ failures = 0
    /\ serial = TRUE
    /\ proc = [p \in Procs |-> IdleLocals]
    /\ filename \in FileNames
    /\ reply = NoReply
    /\ AsideInit

(***************************************************************************)
(* The store (redbean-node) and the file, as the code uses them.            *)
(***************************************************************************)
\* getConfigFilePath() && fs.existsSync(filePath)
configFileExists == envPath /\ file = "present"

\* readConfigFile with an absent file read as an empty document
readConfigFileAbsentAsEmpty(content) ==
    IF ~envPath \/ file = "absent"
       THEN [null |-> FALSE, monitors |-> <<>>]
       ELSE IF content.state = "malformed"
          THEN [null |-> TRUE, monitors |-> <<>>]
          ELSE IF content.state = "nomonitors"
             THEN [null |-> FALSE, monitors |-> <<>>]
             ELSE [null |-> FALSE, monitors |-> content.monitors]

\* readConfigFile() when the file, if there is one, holds `content':
\* null, or the parsed config's monitors
readConfigFile(content) ==
    IF ~envPath \/ file = "absent"
       THEN [null |-> TRUE, monitors |-> <<>>]
       ELSE IF content.state = "malformed"
          THEN [null |-> TRUE, monitors |-> <<>>]
          ELSE IF content.state = "nomonitors"
             THEN [null |-> FALSE, monitors |-> <<>>]
             ELSE [null |-> FALSE, monitors |-> content.monitors]

RECURSIVE SortById(_)
SortById(rows) ==
    IF rows = {}
       THEN <<>>
       ELSE LET first == CHOOSE r \in rows : \A q \in rows : r.id <= q.id
            IN  <<first>> \o SortById(rows \ {first})

\* R.find("monitor", " user_id = ? AND config_managed = 1 ", [userId])
findManaged(userId) ==
    SortById({r \in db : r.user_id = userId /\ r.config_managed})

\* what the loops read of a row of existingMonitors
idAndName(rows) == [j \in 1..Len(rows) |-> [id |-> rows[j].id, name |-> rows[j].name]]

\* findOne without the config_managed condition
findOneRowsAnyFlag(name, userId) ==
    {r \in db : r.name = name /\ r.user_id = userId}

\* findOne with a condition no row meets
findOneRowsNever(name, userId) == {}

\* the rows R.findOne("monitor", " name = ? AND user_id = ? AND config_managed = 1 ") may return
findOneRows(name, userId) ==
    {r \in db : r.name = name /\ r.user_id = userId /\ r.config_managed}

\* R.store(bean): an insert for a bean without id, else an update of its row
storeRow(bean) ==
    IF "id" \in DOMAIN bean
       THEN IF \E r \in db : r.id = bean.id
               THEN {r \in db : r.id # bean.id} \cup {bean}
               ELSE db
       ELSE db \cup {Assign(bean, "id", nextId)}

\* R.trash(bean)
trashRow(id) == {r \in db : r.id # id}

\* the import without its test of the key
importDataWithId(bean, monitorData) == Spread(bean, monitorData)

\* for (const key in monitorData) if (key !== "id") bean[key] = monitorData[key]
importData(bean, monitorData) == Spread(bean, Delete(monitorData, "id"))

\* new Set(monitors.map(m => m.name))
configMonitorNames(monitors) == {monitors[j].name : j \in 1..Len(monitors)}

RECURSIVE validateAllStopAtFirst(_, _)
\* the validation loop leaving at the first invalid monitor
validateAllStopAtFirst(monitors, j) ==
    IF j > Len(monitors)
       THEN <<>>
       ELSE LET validation == validateMonitorConfig(monitors[j], j - 1)
            IN  IF ~validation.valid
                   THEN validation.errors
                   ELSE validateAllStopAtFirst(monitors, j + 1)

RECURSIVE validateAll(_, _)
\* the validation loop: the errors of monitors[j..], in order
validateAll(monitors, j) ==
    IF j > Len(monitors)
       THEN <<>>
       ELSE LET validation == validateMonitorConfig(monitors[j], j - 1)
            IN  (IF ~validation.valid THEN validation.errors ELSE <<>>)
                \o validateAll(monitors, j + 1)

pushError(l, kind, name) ==
    [l EXCEPT !.result.errors = Append(@, Err(kind, -1, name, ""))]

(***************************************************************************)
(* syncConfigMonitors, one action per stretch of code between two awaits.   *)
(***************************************************************************)
set(p, l) == proc' = [proc EXCEPT ![p] = l]

\* a collaborator call succeeds, or fails while the run's failures last
outcome(ok) ==
    /\ ok \/ failures < MaxFailures
    /\ failures' = IF ok THEN failures ELSE failures + 1

RECURSIVE removeFrom(_, _, _, _)
\* the removal loop from existingMonitors[k] on, up to its next await: the
\* locals then, and the beans started then
removeFrom(l, k, names, st) ==
    IF k > Len(l.existingMonitors)
       THEN [l |-> [l EXCEPT !.pc = "done", !.k = 0], started |-> st]
       ELSE LET existingMonitor == l.existingMonitors[k]
            IN  IF existingMonitor.name \in names
                   THEN removeFrom(l, k + 1, names, st)
                   ELSE IF existingMonitor.id \in DOMAIN monitorList
                      THEN [l |-> [l EXCEPT !.pc = "rmStop", !.k = k, !.swept = Append(@, k)],
                            started |-> beanStop(st, monitorList[existingMonitor.id])]
                      ELSE [l |-> [l EXCEPT !.pc = "trash", !.k = k, !.swept = Append(@, k)],
                            started |-> st]

\* the end of one iteration with the loops left at the first error
nextMonitorLeaveOnError(l, st) ==
    LET m == [l EXCEPT !.bean = <<>>, !.isNew = FALSE]
    IN  IF l.result.errors # <<>>
           THEN [l |-> [m EXCEPT !.pc = "done"], started |-> st]
           ELSE IF l.i < Len(l.monitors)
              THEN [l |-> [m EXCEPT !.i = l.i + 1, !.pc = "findOne", !.tried = Append(@, l.i + 1)],
                    started |-> st]
              ELSE removeFrom([m EXCEPT !.i = 0], 1, configMonitorNames(l.monitors), st)

\* the end of one iteration of the monitors loop: the next iteration up to its
\* await (findOrCreateMonitor), or the removal loop
nextMonitor(l, st) ==
    LET m == [l EXCEPT !.bean = <<>>, !.isNew = FALSE]
    IN  IF l.i < Len(l.monitors)
           THEN [l |-> [m EXCEPT !.i = l.i + 1, !.pc = "findOne", !.tried = Append(@, l.i + 1)],
                 started |-> st]
           ELSE removeFrom([m EXCEPT !.i = 0], 1, configMonitorNames(l.monitors), st)

\* catch (e) of the monitors loop
catchProcess(l) == pushError(l, "Error processing monitor", l.monitors[l.i].name)

\* catch (e) of the removal loop
catchRemove(l) == pushError(l, "Error removing monitor", l.existingMonitors[l.k].name)

step(p, next) ==
    /\ set(p, next.l)
    /\ started' = next.started

\* the call of syncConfigMonitors(userId, server) up to its first await
syncBegin(p, chain) ==
  \E content \in Contents :
    LET config == readConfigFile(content)
        errors == validateAll(config.monitors, 1)
        l == [IdleLocals EXCEPT
                !.cycle = cycles + 1,
                !.chain = chain,
                !.source = IF ~envPath THEN "nopath"
                           ELSE IF file = "absent" THEN "absent" ELSE content.state,
                !.before = {r.name : r \in {x \in db : x.user_id = Owner /\ x.config_managed}},
                !.rows = {x \in db : x.user_id = Owner /\ x.config_managed}]
    IN  /\ configFileExists \/ content.state = "nomonitors"
        /\ cycles < MaxCycles
        /\ cycles' = cycles + 1
        /\ IF config.null
              THEN set(p, [l EXCEPT !.pc = "done"])
              ELSE IF errors # <<>>
                 THEN set(p, [l EXCEPT !.pc = "done", !.monitors = config.monitors,
                                       !.result.errors = errors])
                 ELSE set(p, [l EXCEPT !.pc = "find", !.monitors = config.monitors])
        /\ serial' = (serial /\ (config.null \/ errors # <<>>
                                  \/ \A q \in Procs \ {p} : ~InFlight(proc[q])))
        /\ UNCHANGED <<envPath, filename, file, db, nextId, monitorList, started, watching, failures, reply, aside>>

\* await R.find(...) returns: existingMonitors, then the loops up to the next await
FindExisting(p) ==
    /\ proc[p].pc = "find"
    /\ \E ok \in BOOLEAN :
        /\ outcome(ok)
        /\ IF ok
              THEN LET l == [proc[p] EXCEPT !.existingMonitors = idAndName(findManaged(Owner))]
                   IN  step(p, nextMonitor(l, started))
              ELSE /\ set(p, [proc[p] EXCEPT !.pc = "threw"])
                   /\ UNCHANGED started
    /\ UNCHANGED <<envPath, filename, file, db, nextId, monitorList, watching, cycles, serial, reply, aside>>

\* await findOrCreateMonitor(...) returns a row's bean or a fresh one; the data
\* is imported, bean.validate() passes or throws, R.store(bean) is called
FindOne(p) ==
    /\ proc[p].pc = "findOne"
    /\ LET l == proc[p]
           monitorConfig == l.monitors[l.i]
       IN  \E ok \in BOOLEAN :
            /\ outcome(ok)
            /\ IF ok
                  THEN \E bean \in findOneRows(monitorConfig.name, Owner) \cup {<<>>} :
                        /\ bean = <<>> => findOneRows(monitorConfig.name, Owner) = {}
                        /\ set(p, [l EXCEPT
                                     !.isNew = "id" \notin DOMAIN bean,
                                     !.bean = importData(bean, configToMonitorBean(monitorConfig, Owner)),
                                     !.pc = "store"])
                        /\ UNCHANGED started
                  ELSE step(p, nextMonitor(catchProcess(l), started))
    /\ UNCHANGED <<envPath, filename, file, db, nextId, monitorList, watching, cycles, serial, reply, aside>>

\* the condition without its test of the active flag
shouldStartAlways(bean) == TRUE

\* if (bean.active && server), for the server every caller passes
shouldStart(bean) == bean.active

\* the count taken only where the stored row differs from what was there
countStoredIfChanged(l, bean) ==
    IF l.isNew
       THEN [l EXCEPT !.bean = bean, !.result.added = @ + 1]
       ELSE IF bean \in db
          THEN [l EXCEPT !.bean = bean]
          ELSE [l EXCEPT !.bean = bean, !.result.updated = @ + 1]

\* if (isNew) result.added++ else result.updated++, bean.id being set by the store
countStored(l, bean) ==
    IF l.isNew
       THEN [l EXCEPT !.bean = bean, !.result.added = @ + 1]
       ELSE [l EXCEPT !.bean = bean, !.result.updated = @ + 1]

\* await R.store(bean) returns: the row is written, the count is taken, and an
\* active bean's registered predecessor is stopped, or the bean is registered
\* and started
Store(p) ==
    /\ proc[p].pc = "store"
    /\ LET l == proc[p] IN
       \E ok \in BOOLEAN :
        /\ outcome(ok)
        /\ IF ok
              THEN LET id == IF l.isNew THEN nextId ELSE l.bean.id
                       bean == Assign(l.bean, "id", id)
                       counted == countStored(l, bean)
                   IN  /\ db' = storeRow(l.bean)
                       /\ nextId' = IF l.isNew THEN nextId + 1 ELSE nextId
                       /\ IF shouldStart(bean)
                             THEN IF id \in DOMAIN monitorList
                                     THEN /\ set(p, [counted EXCEPT !.pc = "stop"])
                                          /\ started' = beanStop(started, monitorList[id])
                                          /\ UNCHANGED monitorList
                                     ELSE /\ set(p, [counted EXCEPT !.pc = "start"])
                                          /\ monitorList' = (id :> Bean(id, l.cycle, l.i)) @@ monitorList
                                          /\ started' = beanStart(started, Bean(id, l.cycle, l.i))
                             ELSE /\ step(p, nextMonitor(counted, started))
                                  /\ UNCHANGED monitorList
              ELSE /\ step(p, nextMonitor(catchProcess(l), started))
                   /\ UNCHANGED <<db, nextId, monitorList>>
    /\ UNCHANGED <<envPath, filename, file, watching, cycles, serial, reply, aside>>

\* await server.monitorList[bean.id].stop() returns: the bean is registered and started
Stopped(p) ==
    /\ proc[p].pc = "stop"
    /\ LET l == proc[p] IN
       \E ok \in BOOLEAN :
        /\ outcome(ok)
        /\ IF ok
              THEN /\ set(p, [l EXCEPT !.pc = "start"])
                   /\ monitorList' = (l.bean.id :> Bean(l.bean.id, l.cycle, l.i)) @@ monitorList
                   /\ started' = beanStart(started, Bean(l.bean.id, l.cycle, l.i))
              ELSE /\ step(p, nextMonitor(catchProcess(l), started))
                   /\ UNCHANGED monitorList
    /\ UNCHANGED <<envPath, filename, file, db, nextId, watching, cycles, serial, reply, aside>>

\* await bean.start(server.io) returns
Started(p) ==
    /\ proc[p].pc = "start"
    /\ LET l == proc[p] IN
       \E ok \in BOOLEAN :
        /\ outcome(ok)
        /\ IF ok
              THEN step(p, nextMonitor(l, started))
              ELSE step(p, nextMonitor(catchProcess(l),
                                       beanStop(started, Bean(l.bean.id, l.cycle, l.i))))
    /\ UNCHANGED <<envPath, filename, file, db, nextId, monitorList, watching, cycles, serial, reply, aside>>

\* removal loop: await server.monitorList[existingMonitor.id].stop() returns:
\* the handle is deleted and R.trash is called
RemoveStopped(p) ==
    /\ proc[p].pc = "rmStop"
    /\ LET l == proc[p]
           names == configMonitorNames(l.monitors)
       IN  \E ok \in BOOLEAN :
            /\ outcome(ok)
            /\ IF ok
                  THEN /\ set(p, [l EXCEPT !.pc = "trash"])
                       /\ monitorList' = [id \in DOMAIN monitorList \ {l.existingMonitors[l.k].id}
                                            |-> monitorList[id]]
                       /\ UNCHANGED started
                  ELSE /\ step(p, removeFrom(catchRemove(l), l.k + 1, names, started))
                       /\ UNCHANGED monitorList
    /\ UNCHANGED <<envPath, filename, file, db, nextId, watching, cycles, serial, reply, aside>>

\* removal loop: await R.trash(existingMonitor) returns
Trashed(p) ==
    /\ proc[p].pc = "trash"
    /\ LET l == proc[p]
           names == configMonitorNames(l.monitors)
       IN  \E ok \in BOOLEAN :
            /\ outcome(ok)
            /\ IF ok
                  THEN /\ db' = trashRow(l.existingMonitors[l.k].id)
                       /\ step(p, removeFrom([l EXCEPT !.result.removed = @ + 1],
                                             l.k + 1, names, started))
                  ELSE /\ step(p, removeFrom(catchRemove(l), l.k + 1, names, started))
                       /\ UNCHANGED db
    /\ UNCHANGED <<envPath, filename, file, nextId, monitorList, watching, cycles, serial, reply, aside>>

(***************************************************************************)
(* The watcher's sweep when the file is gone (the debounced callback).      *)
(***************************************************************************)
\* startFileWatcher(userId, server): what is watched afterwards
startFileWatcher ==
    IF ~envPath
       THEN watching
       ELSE IF file = "present" THEN "file" ELSE "dir"

RECURSIVE sweepFrom(_, _, _)
\* the sweep's loop from existingMonitors[k] on, up to its next await
sweepFrom(l, k, st) ==
    IF k > Len(l.existingMonitors)
       THEN [l |-> [l EXCEPT !.pc = "done", !.k = 0], started |-> st]
       ELSE LET monitor == l.existingMonitors[k]
            IN  IF monitor.id \in DOMAIN monitorList
                   THEN [l |-> [l EXCEPT !.pc = "swStop", !.k = k, !.swept = Append(@, k)],
                         started |-> beanStop(st, monitorList[monitor.id])]
                   ELSE [l |-> [l EXCEPT !.pc = "swTrash", !.k = k, !.swept = Append(@, k)],
                         started |-> st]

\* a step of the sweep; after its last one the file watcher is closed and
\* startFileWatcher is called again
sweepStep(p, next) ==
    /\ started' = next.started
    /\ IF next.l.pc = "done"
          THEN /\ set(p, IdleLocals)
               /\ watching' = startFileWatcher
          ELSE /\ set(p, next.l)
               /\ UNCHANGED watching

\* the debounced callback finds the file gone: R.find is called
WatcherSweep ==
    /\ watching = "file"
    /\ proc["watcher"].pc = "idle"
    /\ ~configFileExists
    /\ cycles < MaxCycles
    /\ cycles' = cycles + 1
    /\ set("watcher", [IdleLocals EXCEPT
                          !.pc = "swFind", !.chain = "sweep", !.cycle = cycles + 1])
    /\ serial' = (serial /\ \A q \in Procs \ {"watcher"} : ~InFlight(proc[q]))
    /\ UNCHANGED <<envPath, filename, file, db, nextId, monitorList, started, watching, failures, reply, aside>>

\* await R.find(...) returns in the sweep
SweepFound ==
    /\ proc["watcher"].pc = "swFind"
    /\ \E ok \in BOOLEAN :
        /\ outcome(ok)
        /\ IF ok
              THEN LET l == [proc["watcher"] EXCEPT !.existingMonitors = idAndName(findManaged(Owner))]
                   IN  sweepStep("watcher", sweepFrom(l, 1, started))
              ELSE /\ set("watcher", [proc["watcher"] EXCEPT !.pc = "threw"])
                   /\ UNCHANGED <<started, watching>>
    /\ UNCHANGED <<envPath, filename, file, db, nextId, monitorList, cycles, serial, reply, aside>>

\* await server.monitorList[monitor.id].stop() returns in the sweep
SweepStopped ==
    /\ proc["watcher"].pc = "swStop"
    /\ LET l == proc["watcher"] IN
       \E ok \in BOOLEAN :
        /\ outcome(ok)
        /\ IF ok
              THEN /\ set("watcher", [l EXCEPT !.pc = "swTrash"])
                   /\ monitorList' = [id \in DOMAIN monitorList \ {l.existingMonitors[l.k].id}
                                        |-> monitorList[id]]
                   /\ UNCHANGED <<started, watching>>
              ELSE /\ sweepStep("watcher", sweepFrom(l, l.k + 1, started))
                   /\ UNCHANGED monitorList
    /\ UNCHANGED <<envPath, filename, file, db, nextId, cycles, serial, reply, aside>>

\* await R.trash(monitor) returns in the sweep
SweepTrashed ==
    /\ proc["watcher"].pc = "swTrash"
    /\ LET l == proc["watcher"] IN
       \E ok \in BOOLEAN :
        /\ outcome(ok)
        /\ db' = IF ok THEN trashRow(l.existingMonitors[l.k].id) ELSE db
        /\ sweepStep("watcher", sweepFrom(l, l.k + 1, started))
    /\ UNCHANGED <<envPath, filename, file, nextId, monitorList, cycles, serial, reply, aside>>

(***************************************************************************)
(* The three stimuli, and the file's editor.                                *)
(***************************************************************************)
\* initConfigFileMonitors: the initial sync
Startup ==
    /\ proc["startup"].pc = "idle"
    /\ syncBegin("startup", "startup")

\* initConfigFileMonitors after its sync: startFileWatcher
StartupReturn ==
    /\ proc["startup"].pc = "done"
    /\ set("startup", [IdleLocals EXCEPT !.pc = "exited"])
    /\ watching' = startFileWatcher
    /\ UNCHANGED <<envPath, filename, file, db, nextId, monitorList, started, cycles, failures, serial, reply, aside>>

\* checkLogin that lets every socket pass
checkLoginAnyone(s) == TRUE

\* checkLogin(socket) returns; it throws for a socket without userID
checkLogin(s) == "userID" \in DOMAIN s

\* socket.on("syncConfigMonitors") of a logged-in socket of the owner
ManualSync ==
    /\ checkLogin(socket)
    /\ proc["manual"].pc = "idle"
    /\ syncBegin("manual", "manual")

\* callback({ ok: false, msg: e.message })
replyError == [ok |-> FALSE]

\* callback({ ok: result.errors.length === 0, added, updated, removed, errors, msg })
replyResult(result) ==
    [ ok |-> Len(result.errors) = 0,
      added |-> result.added,
      updated |-> result.updated,
      removed |-> result.removed,
      errors |-> result.errors ]

\* the socket handler after its await of syncConfigMonitors: the call threw and
\* the catch replies, or await server.sendMonitorList(socket) returns and the
\* result is the reply, or it throws and the catch replies
ManualReturn ==
    /\ proc["manual"].pc \in {"done", "threw"}
    /\ \E ok \in BOOLEAN :
        /\ IF proc["manual"].pc = "threw"
              THEN ok = FALSE /\ UNCHANGED failures
              ELSE outcome(ok)
        /\ reply' = IF ok THEN replyResult(proc["manual"].result) ELSE replyError
    /\ set("manual", IdleLocals)
    /\ UNCHANGED <<envPath, filename, file, db, nextId, monitorList, started, watching, cycles, serial, aside>>

\* the file watch's debounced callback finds the file, or the directory
\* watch's callback finds it created: syncConfigMonitors
WatcherSync ==
    /\ watching \in {"file", "dir"}
    /\ watching = "dir" => filename = "monitors.yaml"
    /\ proc["watcher"].pc = "idle"
    /\ configFileExists
    /\ syncBegin("watcher", watching)

\* the end of the watcher's callback; the directory watch's then calls startFileWatcher
WatcherReturn ==
    /\ proc["watcher"].pc \in {"done", "threw"}
    /\ watching' = IF proc["watcher"].pc = "done" /\ proc["watcher"].chain = "dir"
                      THEN startFileWatcher
                      ELSE watching
    /\ set("watcher", IdleLocals)
    /\ UNCHANGED <<envPath, filename, file, db, nextId, monitorList, started, cycles, failures, serial, reply, aside>>

\* somebody creates or removes the file (what it holds is chosen where it is read)
EditFile ==
    /\ envPath
    /\ file' = IF file = "absent" THEN "present" ELSE "absent"
    /\ UNCHANGED <<envPath, filename, db, nextId, monitorList, started, watching, cycles, failures, serial, proc, reply, aside>>

Next ==
    \/ Startup
    \/ StartupReturn
    \/ ManualSync
    \/ ManualReturn
    \/ WatcherSync
    \/ WatcherSweep
    \/ WatcherReturn
    \/ \E p \in Procs : FindExisting(p)
    \/ \E p \in Procs : FindOne(p)
    \/ \E p \in Procs : Store(p)
    \/ \E p \in Procs : Stopped(p)
    \/ \E p \in Procs : Started(p)
    \/ \E p \in Procs : RemoveStopped(p)
    \/ \E p \in Procs : Trashed(p)
    \/ SweepFound
    \/ SweepStopped
    \/ SweepTrashed
    \/ EditFile

Spec == Init /\ [][Next]_vars

(***************************************************************************)
(* The socket's two events by themselves: syncConfigMonitors with the       *)
(* reconciliation it awaits, and getConfigFileStatus, from a socket that    *)
(* logs in and out.                                                         *)
(***************************************************************************)
\* getConfigFilePath(): the path the environment names, or null
getConfigFilePath == IF envPath THEN filename ELSE Null

\* callback({ ok: false, msg: e.message }) for what checkLogin throws
replyNotLoggedIn == [ok |-> FALSE, msg |-> "You are not logged in."]

\* callback({ ok: true, exists: configFileExists(), path: getConfigFilePath() })
replyStatus ==
    [ ok |-> TRUE,
      exists |-> IF envPath THEN file = "present" ELSE Null,
      path |-> getConfigFilePath ]

\* the socket logs in as the owner
Login ==
    /\ ~checkLogin(socket)
    /\ socket' = Assign(socket, "userID", Owner)
    /\ UNCHANGED <<envPath, file, db, nextId, monitorList, started, watching, cycles, failures,
                   serial, proc, filename, reply, dirWatchers, dirEvents, debounceTimer, timers,
                   inflight, notified, invoked, bursts, checked, verdict, raised>>

\* the socket logs out
Logout ==
    /\ checkLogin(socket)
    /\ socket' = Delete(socket, "userID")
    /\ UNCHANGED <<envPath, file, db, nextId, monitorList, started, watching, cycles, failures,
                   serial, proc, filename, reply, dirWatchers, dirEvents, debounceTimer, timers,
                   inflight, notified, invoked, bursts, checked, verdict, raised>>

\* socket.on("syncConfigMonitors"): checkLogin throws and the catch replies, or
\* syncConfigMonitors is called
SyncEvent ==
    IF checkLogin(socket)
       THEN ManualSync
       ELSE /\ reply' = replyNotLoggedIn
            /\ UNCHANGED <<envPath, file, db, nextId, monitorList, started, watching, cycles,
                           failures, serial, proc, filename, aside>>

\* socket.on("getConfigFileStatus"): checkLogin throws and the catch replies,
\* or the status is the reply
StatusEvent ==
    /\ reply' = IF checkLogin(socket) THEN replyStatus ELSE replyNotLoggedIn
    /\ UNCHANGED <<envPath, file, db, nextId, monitorList, started, watching, cycles, failures,
                   serial, proc, filename, aside>>

SocketNext ==
    \/ Login
    \/ Logout
    \/ SyncEvent
    \/ StatusEvent
    \/ ManualReturn
    \/ FindExisting("manual")
    \/ FindOne("manual")
    \/ Store("manual")
    \/ Stopped("manual")
    \/ Started("manual")
    \/ RemoveStopped("manual")
    \/ Trashed("manual")
    \/ EditFile

SocketSpec == Init /\ [][SocketNext]_vars

(***************************************************************************)
(* The watcher by itself: startFileWatcher's two watches, the debounce      *)
(* timer and the callbacks, with the reconciliation the callbacks await     *)
(* reduced to its being in flight.                                          *)
(***************************************************************************)
\* calls of the file watch's listener in one run
MaxNotifications == 3
\* directory watches opened in one run
MaxDirWatchers == 2
\* undelivered directory events at one time
MaxDirEvents == 2
\* directory callbacks awaiting their syncConfigMonitors at one time
MaxInFlight == 2

\* what the watcher leaves alone
engine == <<db, nextId, monitorList, started, cycles, serial, proc, reply, checked, verdict,
            socket>>

\* clearTimeout that clears nothing
clearTimeoutNothing(pending, timer) == pending

\* clearTimeout(timer)
clearTimeout(pending, timer) == pending \ {timer}

\* startFileWatcher(userId, server): the file watch is closed if there is one;
\* the file is watched if it exists, else one more watch on the directory
startWatching ==
    IF ~envPath
       THEN UNCHANGED <<watching, dirWatchers>>
       ELSE IF file = "present"
          THEN watching' = "file" /\ UNCHANGED dirWatchers
          ELSE /\ watching' = "dir"
               /\ dirWatchers < MaxDirWatchers
               /\ dirWatchers' = dirWatchers + 1

\* the file watch's listener: the timer is cleared if one was set, and set anew
listener ==
    /\ notified < MaxNotifications
    /\ notified' = notified + 1
    /\ timers' = (IF debounceTimer # 0 THEN clearTimeout(timers, debounceTimer) ELSE timers)
                 \cup {notified + 1}
    /\ debounceTimer' = notified + 1
    /\ bursts' = IF timers = {} THEN bursts + 1 ELSE bursts

\* every directory watch is sent the event of the file's name
toDirWatchers ==
    /\ dirEvents + dirWatchers <= MaxDirEvents
    /\ dirEvents' = dirEvents + dirWatchers

WatcherInit ==
    /\ envPath = TRUE
    /\ filename \in FileNames
    /\ file \in {"absent", "present"}
    /\ db = {uiRow, otherRow}
    /\ nextId = 3
    /\ monitorList = [id \in {1, 2} |-> Bean(id, 0, id)]
    /\ started = {Bean(1, 0, 1), Bean(2, 0, 2)}
    /\ watching = "none"
    /\ cycles = 0
    /\ failures = 0
    /\ serial = TRUE
    /\ proc = [p \in Procs |-> IdleLocals]
    /\ reply = NoReply
    /\ AsideInit

\* initConfigFileMonitors, its sync done, calls startFileWatcher: at the start
\* of the server, and again after a stopFileWatcher
WatchStart ==
    /\ watching \in {"none", "stopped"}
    /\ startWatching
    /\ UNCHANGED <<envPath, filename, file, failures, dirEvents, debounceTimer, timers, inflight,
                   notified, invoked, bursts, raised, engine>>

\* the file is written to: the file watch reports a change
FileChanged ==
    /\ file = "present"
    /\ watching = "file"
    /\ listener
    /\ UNCHANGED <<envPath, filename, file, failures, watching, dirWatchers, dirEvents, inflight,
                   invoked, raised, engine>>

\* the file is deleted or moved away: the file watch and the directory watches
\* report it
FileRemoved ==
    /\ file = "present"
    /\ file' = "absent"
    /\ IF watching = "file"
          THEN listener
          ELSE UNCHANGED <<notified, timers, debounceTimer, bursts>>
    /\ toDirWatchers
    /\ UNCHANGED <<envPath, filename, failures, watching, dirWatchers, inflight, invoked, raised, engine>>

\* the file is created or moved into place: the directory watches report it
FileCreated ==
    /\ file = "absent"
    /\ file' = "present"
    /\ toDirWatchers
    /\ UNCHANGED <<envPath, filename, failures, watching, dirWatchers, debounceTimer, timers,
                   inflight, notified, invoked, bursts, raised, engine>>

\* a directory watch's callback for a "rename" of the file's name: if the name
\* is monitors.yaml and the file exists, syncConfigMonitors is called
DirEvent ==
    /\ dirEvents > 0
    /\ dirEvents' = dirEvents - 1
    /\ IF filename = "monitors.yaml" /\ configFileExists
          THEN /\ inflight.dirSync < MaxInFlight
               /\ inflight' = [inflight EXCEPT !.dirSync = @ + 1]
          ELSE UNCHANGED inflight
    /\ UNCHANGED <<envPath, filename, file, failures, watching, dirWatchers, debounceTimer, timers,
                   notified, invoked, bursts, raised, engine>>

\* the directory callback's syncConfigMonitors settles: .then(startFileWatcher)
\* if it resolved, nothing if it rejected
DirSyncSettled ==
    /\ inflight.dirSync > 0
    /\ inflight' = [inflight EXCEPT !.dirSync = @ - 1]
    /\ \E ok \in BOOLEAN :
        /\ outcome(ok)
        /\ IF ok
              THEN startWatching /\ UNCHANGED raised
              ELSE raised' = TRUE /\ UNCHANGED <<watching, dirWatchers>>
    /\ UNCHANGED <<envPath, filename, file, dirEvents, debounceTimer, timers, notified, invoked,
                   bursts, engine>>

\* a timer expires: the debounced callback runs, up to its first await (of
\* R.find of the sweep if the file is gone, else of syncConfigMonitors)
Expire ==
    /\ \E timer \in timers : timers' = timers \ {timer}
    /\ invoked' = invoked + 1
    /\ inflight' = IF configFileExists
                      THEN [inflight EXCEPT !.sync = @ + 1]
                      ELSE [inflight EXCEPT !.sweep = @ + 1]
    /\ UNCHANGED <<envPath, filename, file, failures, watching, dirWatchers, dirEvents,
                   debounceTimer, notified, bursts, raised, engine>>

\* the debounced callback's syncConfigMonitors settles
SyncSettled ==
    /\ inflight.sync > 0
    /\ inflight' = [inflight EXCEPT !.sync = @ - 1]
    /\ UNCHANGED <<envPath, filename, file, failures, watching, dirWatchers, dirEvents,
                   debounceTimer, timers, notified, invoked, bursts, raised, engine>>

\* the sweep ends: its R.find rejected and so did the callback, or its loop is
\* done and fileWatcher.close() is called, which throws if fileWatcher is null,
\* and then startFileWatcher
SweepSettled ==
    /\ inflight.sweep > 0
    /\ inflight' = [inflight EXCEPT !.sweep = @ - 1]
    /\ \E ok \in BOOLEAN :
        /\ outcome(ok)
        /\ IF ok /\ watching = "file"
              THEN startWatching /\ UNCHANGED raised
              ELSE raised' = TRUE /\ UNCHANGED <<watching, dirWatchers>>
    /\ UNCHANGED <<envPath, filename, file, dirEvents, debounceTimer, timers, notified, invoked,
                   bursts, engine>>

WatcherNext ==
    \/ WatchStart
    \/ FileChanged
    \/ FileRemoved
    \/ FileCreated
    \/ DirEvent
    \/ DirSyncSettled
    \/ Expire
    \/ SyncSettled
    \/ SweepSettled

WatcherSpec == WatcherInit /\ [][WatcherNext]_vars

\* stopFileWatcher(): the file watch is closed if there is one and the timer
\* debounceTimer refers to is cleared; the directory watches are in no variable
WatchStop ==
    /\ watching # "none"
    /\ watching' = "stopped"
    /\ timers' = IF debounceTimer # 0 THEN clearTimeout(timers, debounceTimer) ELSE timers
    /\ debounceTimer' = 0
    /\ UNCHANGED <<envPath, filename, file, failures, dirWatchers, dirEvents, inflight, notified,
                   invoked, bursts, raised, engine>>

\* the watcher with the calls of stopFileWatcher
LifecycleNext ==
    \/ WatcherNext
    \/ WatchStop

LifecycleSpec == WatcherInit /\ [][LifecycleNext]_vars

(***************************************************************************)
(* The validator by itself: validateMonitorConfig applied to one monitor    *)
(* definition of a file, more than once.                                    *)
(***************************************************************************)
\* calls of validateMonitorConfig on the one definition
MaxValidations == 2

\* a definition without the field
Absent == [f \in {} |-> f]

\* what a monitor of a file may say of its name, type, url, keyword, interval
\* and retryInterval
NameOptions == {Absent, "name" :> Null, "name" :> "", "name" :> "A"}
TypeOptions ==
    {Absent, "type" :> "", "type" :> "http", "type" :> "keyword", "type" :> "push",
     "type" :> "carrier-pigeon"}
UrlOptions == {Absent, "url" :> Null, "url" :> "", "url" :> "https://a.example"}
KeywordOptions == {Absent, "keyword" :> "up"}
Seconds == {IntervalMin - 1, IntervalMin, IntervalMax, IntervalMax + 1, NaN}
IntervalOptions == {Absent} \cup {"interval" :> v : v \in Seconds}
RetryIntervalOptions == {Absent} \cup {"retryInterval" :> v : v \in Seconds}

MonitorConfigs ==
    { n @@ t @@ u @@ k @@ i @@ r :
        n \in NameOptions, t \in TypeOptions, u \in UrlOptions, k \in KeywordOptions,
        i \in IntervalOptions, r \in RetryIntervalOptions }

ValidatorInit ==
    /\ checked \in [monitorConfig : MonitorConfigs, index : {0, 1}]
    /\ verdict = <<>>
    /\ envPath = TRUE
    /\ filename = "monitors.yaml"
    /\ file = "present"
    /\ db = {uiRow, otherRow}
    /\ nextId = 3
    /\ monitorList = [id \in {1, 2} |-> Bean(id, 0, id)]
    /\ started = {Bean(1, 0, 1), Bean(2, 0, 2)}
    /\ watching = "none"
    /\ cycles = 0
    /\ failures = 0
    /\ serial = TRUE
    /\ proc = [p \in Procs |-> IdleLocals]
    /\ reply = NoReply
    /\ dirWatchers = 0
    /\ dirEvents = 0
    /\ debounceTimer = 0
    /\ timers = {}
    /\ inflight = [sync |-> 0, sweep |-> 0, dirSync |-> 0]
    /\ notified = 0
    /\ invoked = 0
    /\ bursts = 0
    /\ raised = FALSE
    /\ socket = [id |-> "s1", userID |-> Owner]

\* validateMonitorConfig(monitorConfig, index) is called and returns
Validate ==
    /\ Len(verdict) < MaxValidations
    /\ verdict' = Append(verdict, validateMonitorConfig(checked.monitorConfig, checked.index))
    /\ UNCHANGED <<envPath, file, db, nextId, monitorList, started, watching, cycles, failures,
                   serial, proc, filename, reply, dirWatchers, dirEvents, debounceTimer, timers,
                   inflight, notified, invoked, bursts, checked, raised, socket>>

ValidatorNext == Validate

ValidatorSpec == ValidatorInit /\ [][ValidatorNext]_vars

(***************************************************************************)
(* What the claims speak of.                                                *)
(***************************************************************************)
\* the owner's config-managed rows of a table
ownerManaged(table) == {r \in table : r.user_id = Owner /\ r.config_managed}

\* the rows of a table that are not the owner's config-managed ones
foreign(table) == table \ ownerManaged(table)

\* the beans of a set that run for row id
tasksOf(beans, id) == {b \in beans : b.id = id}

allValid(monitors) ==
    \A j \in 1..Len(monitors) : validateMonitorConfig(monitors[j], j - 1).valid

distinctNames(monitors) ==
    \A j, k \in 1..Len(monitors) : monitors[j].name = monitors[k].name => j = k

\* this step is p's call of syncConfigMonitors
Begins(p) == proc[p].pc = "idle" /\ proc'[p].pc \notin {"idle", "swFind"}

\* this step is the one in which p's syncConfigMonitors returns its result, for
\* a file that was read and passed the validation
Returns(p) ==
    /\ proc[p].pc # "done"
    /\ proc'[p].pc = "done"
    /\ proc'[p].source \in {"ok", "nomonitors"}
    /\ allValid(proc'[p].monitors)

\* errors is the validation errors of the invalid monitors, one block each, in
\* declared order, and nothing else
ErrorsOfEveryInvalid(monitors, errors) ==
    \E cut \in [0..Len(monitors) -> 0..Len(errors)] :
        /\ cut[0] = 0
        /\ cut[Len(monitors)] = Len(errors)
        /\ \A j \in 1..Len(monitors) :
            /\ cut[j - 1] <= cut[j]
            /\ SubSeq(errors, cut[j - 1] + 1, cut[j])
                 = validateMonitorConfig(monitors[j], j - 1).errors

(***************************************************************************)
(* C1: after a cycle that read a valid declared set and returns no error,   *)
(* the names of the owner's managed rows are the declared names, one row    *)
(* per name.  (Violated: cycles may overlap, see C2.)                       *)
(***************************************************************************)
C1_ManagedRowsMatchDeclared ==
    [][\A p \in Procs :
          (Returns(p) /\ proc'[p].result.errors = <<>>)
          => LET names == configMonitorNames(proc'[p].monitors)
                 rows == ownerManaged(db')
             IN  /\ {r.name : r \in rows} = names
                 /\ \A n \in names : Cardinality({r \in rows : r.name = n}) = 1]_vars

(***************************************************************************)
(* C2: at most one reconciliation cycle or sweep of the owner is in flight  *)
(* at any time.  (Violated: nothing serializes the three stimuli.)          *)
(***************************************************************************)
C2_OneCycleInFlight ==
    Cardinality({p \in Procs : InFlight(proc[p])}) <= 1

C4_ActiveRowsHaveStartedTask ==
    [][\A p \in Procs :
          (Returns(p) /\ proc'[p].result.errors = <<>>)
          => \A r \in ownerManaged(db') :
                r.active => /\ r.id \in DOMAIN monitorList'
                            /\ monitorList'[r.id] \in started']_vars

(***************************************************************************)
(* C5: in every reachable state at most one started and not stopped task    *)
(* exists per row id.  (Violated by two overlapping cycles.)                *)
(***************************************************************************)
C5_OneLiveTaskPerIdentity ==
    \A b \in started : tasksOf(started, b.id) = {b}

(***************************************************************************)
(* C6: in every reachable state at most one config-managed row exists per   *)
(* owner and name.  (Violated by two overlapping cycles.)                   *)
(***************************************************************************)
C6_OneManagedRowPerName ==
    \A r, q \in db :
        (r.config_managed /\ q.config_managed /\ r.user_id = q.user_id /\ r.name = q.name)
        => r = q

(***************************************************************************)
(* C7: no step of a cycle or of the sweep creates, changes or deletes a row *)
(* that is not a config-managed row of the owner, nor touches the bean      *)
(* registered for such a row or its task.                                   *)
(***************************************************************************)
C7_Frame ==
    [][/\ foreign(db') = foreign(db)
       /\ \A r \in foreign(db) :
            /\ r.id \in DOMAIN monitorList <=> r.id \in DOMAIN monitorList'
            /\ r.id \in DOMAIN monitorList => monitorList'[r.id] = monitorList[r.id]
            /\ tasksOf(started', r.id) = tasksOf(started, r.id)]_vars

\* C7's case: a cycle has added, updated and removed managed rows whose names
\* the rows of the UI and of the other user bear too
C7_Witness ==
    \E p \in Procs :
        /\ proc[p].pc = "done"
        /\ proc[p].result.added > 0
        /\ proc[p].result.updated > 0
        /\ proc[p].result.removed > 0
        /\ \E r \in foreign(db) : r.name \in proc[p].before

C9_MalformedSourceIsReported ==
    \A p \in Procs :
        (proc[p].pc = "done" /\ proc[p].source = "malformed")
        => /\ proc[p].result.added = 0
           /\ proc[p].result.updated = 0
           /\ proc[p].result.removed = 0
           /\ Len(proc[p].result.errors) = 1

(***************************************************************************)
(* C10: a cycle that applies a valid declared set D of distinct names to an *)
(* owner whose managed rows bear the names M, and returns no error, returns *)
(* added = |D \ M|, updated = |D \cap M| and removed = |M \ D|; every row   *)
(* created is config-managed.  (Violated: cycles may overlap, see C2.)      *)
(***************************************************************************)
C10_Counts ==
    [][/\ \A p \in Procs :
            (Returns(p) /\ distinctNames(proc'[p].monitors) /\ proc'[p].result.errors = <<>>)
            => LET D == configMonitorNames(proc'[p].monitors)
                   M == proc'[p].before
               IN  /\ proc'[p].result.added = Cardinality(D \ M)
                   /\ proc'[p].result.updated = Cardinality(D \cap M)
                   /\ proc'[p].result.removed = Cardinality(M \ D)
       /\ \A r \in db' : (\A q \in db : q.id # r.id) => r.config_managed]_vars

(***************************************************************************)
(* C11: a cycle that runs right after another cycle of the same valid       *)
(* declared set, neither overlapping any other and neither with an error,   *)
(* returns added = 0, removed = 0 and updated = the number of declared      *)
(* monitors, and leaves the owner's managed rows as they were when it       *)
(* began, that is as the first cycle left them.                             *)
(***************************************************************************)
C11_SecondRunChangesNothing ==
    [][\A p, q \in Procs :
          (/\ p # q
           /\ Returns(q)
           /\ serial'
           /\ proc[p].pc = "done"
           /\ proc[p].source = proc'[q].source
           /\ proc[p].monitors = proc'[q].monitors
           /\ proc[p].cycle + 1 = proc'[q].cycle
           /\ proc[p].result.errors = <<>>
           /\ proc'[q].result.errors = <<>>)
          => /\ proc'[q].result.added = 0
             /\ proc'[q].result.removed = 0
             /\ proc'[q].result.updated = Len(proc'[q].monitors)
             /\ ownerManaged(db') = proc'[q].rows]_vars

\* C11's case: the second of two cycles in a row of the same two monitors has
\* returned, the first having added, updated or removed rows
C11_Witness ==
    \E p, q \in Procs :
        /\ p # q
        /\ serial
        /\ proc[p].pc = "done" /\ proc[q].pc = "done"
        /\ proc[p].source = "ok" /\ proc[q].source = "ok"
        /\ proc[p].monitors = proc[q].monitors
        /\ Len(proc[q].monitors) = 2
        /\ proc[p].cycle + 1 = proc[q].cycle
        /\ proc[p].result.errors = <<>> /\ proc[q].result.errors = <<>>
        /\ proc[p].result.added + proc[p].result.removed > 0
        /\ proc[q].result.updated = 2

\* bean b was made by a cycle for a declared monitor whose merged active flag
\* (the declared value, else the default) is true
madeForActive(b) ==
    \E p \in Procs :
        /\ proc[p].cycle = b.cycle
        /\ proc[p].i = b.i
        /\ b.i \in 1..Len(proc[p].monitors)
        /\ Spread(MONITOR_DEFAULTS, proc[p].monitors[b.i]).active

(***************************************************************************)
(* C12: every bean a step assigns into server.monitorList, and every bean a *)
(* step starts, is the bean of a declared monitor whose merged active flag  *)
(* is true: for a monitor declared inactive no step registers or starts one.*)
(***************************************************************************)
C12_InactiveNeverRegistered ==
    [][/\ \A id \in DOMAIN monitorList' :
            (id \notin DOMAIN monitorList \/ monitorList'[id] # monitorList[id])
            => madeForActive(monitorList'[id])
       /\ \A b \in started' \ started : madeForActive(b)]_vars

\* C12's case: a cycle has stored, without error, a monitor declared inactive
C12_Witness ==
    \E p \in Procs :
        /\ proc[p].pc = "done"
        /\ proc[p].source = "ok"
        /\ proc[p].result.errors = <<>>
        /\ proc[p].result.added + proc[p].result.updated = Len(proc[p].monitors)
        /\ \E j \in 1..Len(proc[p].monitors) :
            ~Spread(MONITOR_DEFAULTS, proc[p].monitors[j]).active
        /\ \E r \in ownerManaged(db) : ~r.active

\* nothing of the engine is running or pending: the startup has called
\* startFileWatcher, no cycle or sweep is in flight, no reply is due, and the
\* file watch has no removal to report
Quiescent ==
    /\ proc["startup"].pc = "exited"
    /\ proc["manual"].pc = "idle"
    /\ proc["watcher"].pc = "idle"
    /\ ~(watching = "file" /\ file = "absent")

(***************************************************************************)
(* C13: once the file is gone, the owner's managed rows are deleted and     *)
(* their beans stopped and unregistered, and the directory is watched.      *)
(* Stated for the states the engine rests in: when nothing is running or    *)
(* pending and the file is absent, no managed row of the owner is left, not *)
(* even in a run without overlap and without any failure in which a cycle   *)
(* of this run registered the row's bean (so the file was there in this     *)
(* run).  (Violated: a removal that no file watch sees is never acted on.)  *)
(***************************************************************************)
C13_RemovedSourceIsSwept ==
    (/\ Quiescent
     /\ envPath
     /\ file = "absent"
     /\ serial
     /\ failures = 0)
    => /\ watching = "dir"
       /\ \A r \in ownerManaged(db) :
            ~(r.id \in DOMAIN monitorList /\ monitorList[r.id].cycle > 0)

(***************************************************************************)
(* C14: the watcher has no timer pending (Idle) or one (Pending); after a   *)
(* notification exactly the timer that notification set is pending,         *)
(* whatever was pending before; the debounced callback runs only when the   *)
(* timer of the last notification expires, and no timer is pending then;    *)
(* so every burst of notifications (counted at the notification that found  *)
(* no timer pending) has run the callback exactly once when its timer is no *)
(* longer pending.                                                          *)
(***************************************************************************)
C14_Debounce ==
    [][/\ Cardinality(timers') <= 1
       /\ notified' = notified + 1 => (timers' = {notified'} /\ debounceTimer' = notified')
       /\ invoked' = invoked + 1 => (timers = {debounceTimer} /\ timers' = {})
       /\ bursts' = invoked' + Cardinality(timers')]_vars

\* C14's case: a burst of three notifications has run the callback once
C14_Witness ==
    /\ notified = 3
    /\ bursts = 1
    /\ invoked = 1
    /\ timers = {}

\* the watcher rests: no directory event is undelivered, no callback is in
\* flight and no timer is pending
WatcherRests ==
    /\ dirEvents = 0
    /\ inflight = [sync |-> 0, sweep |-> 0, dirSync |-> 0]
    /\ timers = {}

(***************************************************************************)
(* C15: whatever the configured path, a file created after startFileWatcher *)
(* found none is reconciled and then watched.  Stated for the states the    *)
(* watcher rests in: when startFileWatcher has been called, no collaborator *)
(* has failed, nothing is pending and the file is there, the file is        *)
(* watched.  (Violated: the directory watch's callback only reacts to the   *)
(* name monitors.yaml.)                                                     *)
(***************************************************************************)
C15_CreatedSourceIsWatched ==
    (/\ WatcherRests
     /\ watching \notin {"none", "stopped"}
     /\ failures = 0
     /\ file = "present")
    => watching = "file"

\* the indices of the existing monitors of l that the declared set does not name
staleOf(l) ==
    LET stale(k) == l.existingMonitors[k].name \notin configMonitorNames(l.monitors)
    IN  SelectSeq([k \in 1..Len(l.existingMonitors) |-> k], stale)

\* the errors of one kind in a result's error list
errorsOf(errors, kind) ==
    LET ofKind(e) == e.kind = kind
    IN  SelectSeq(errors, ofKind)

(***************************************************************************)
(* C16: the step in which the store, start, stop or delete of one monitor   *)
(* fails appends one error naming that monitor to the result and goes on    *)
(* with the next monitor of the loop; and a cycle that passed validation    *)
(* returns only after it has set about every declared monitor and every     *)
(* stale row once, in order, all of them stored or removed except those     *)
(* whose error the result holds.                                            *)
(***************************************************************************)
C16_FailureIsolation ==
    [][\A p \in Procs :
          LET l == proc[p]
              m == proc'[p]
              failed == failures' = failures + 1 /\ m # l
          IN  /\ (failed /\ l.pc \in {"findOne", "store", "stop", "start"})
                 => /\ m.result.errors
                         = Append(l.result.errors,
                                  Err("Error processing monitor", -1, l.monitors[l.i].name, ""))
                    /\ IF l.i < Len(l.monitors)
                          THEN m.pc = "findOne" /\ m.i = l.i + 1
                          ELSE m.pc \in {"rmStop", "trash", "done"}
              /\ (failed /\ l.pc \in {"rmStop", "trash"})
                 => /\ m.result.errors
                         = Append(l.result.errors,
                                  Err("Error removing monitor", -1, l.existingMonitors[l.k].name, ""))
                    /\ m.pc \in {"rmStop", "trash", "done"}
                    /\ m.pc # "done" => m.k > l.k
              /\ Returns(p)
                 => /\ m.tried = [j \in 1..Len(m.monitors) |-> j]
                    /\ m.swept = staleOf(m)
                    /\ m.result.added + m.result.updated
                         >= Len(m.monitors) - Len(errorsOf(m.result.errors, "Error processing monitor"))
                    /\ m.result.removed
                         = Len(staleOf(m)) - Len(errorsOf(m.result.errors, "Error removing monitor"))]_vars

\* C16's case: a cycle of two monitors has returned with an error for the
\* first, and the second is stored, registered and started by that cycle
C16_Witness ==
    \E p \in Procs :
        /\ proc[p].pc = "done"
        /\ Len(proc[p].monitors) = 2
        /\ allValid(proc[p].monitors)
        /\ proc[p].monitors[1].name # proc[p].monitors[2].name
        /\ Len(proc[p].result.errors) = 1
        /\ proc[p].result.errors[1]
             = Err("Error processing monitor", -1, proc[p].monitors[1].name, "")
        /\ \E r \in ownerManaged(db) :
            /\ r.name = proc[p].monitors[2].name
            /\ r.id \in DOMAIN monitorList
            /\ monitorList[r.id].cycle = proc[p].cycle
            /\ monitorList[r.id] \in started

(***************************************************************************)
(* C17: no failure of a collaborator escapes: no call of syncConfigMonitors *)
(* and no sweep of the debounced callback ends thrown, whichever of the     *)
(* store's queries and writes and the tasks' starts and stops failed.       *)
(***************************************************************************)
C17_NothingEscapes ==
    \A p \in Procs : proc[p].pc # "threw"

(***************************************************************************)
(* C18: a call of syncConfigMonitors whose file passed the validation ends  *)
(* only returned, having set about every declared monitor once in declared  *)
(* order and then every stale row once.                                     *)
(***************************************************************************)
C18_RunsToCompletion ==
    \A p \in Procs :
        (/\ proc[p].pc \in {"done", "threw"}
         /\ proc[p].source \in {"ok", "nomonitors"}
         /\ allValid(proc[p].monitors))
        => /\ proc[p].pc = "done"
           /\ proc[p].tried = [j \in 1..Len(proc[p].monitors) |-> j]
           /\ proc[p].swept = staleOf(proc[p])

\* the definition says all that the validation asks of it
wellFormed(monitorConfig) ==
    /\ "name" \in DOMAIN monitorConfig
    /\ monitorConfig.name \notin {Null, ""}
    /\ "type" \in DOMAIN monitorConfig
    /\ monitorConfig.type \in DOMAIN REQUIRED_FIELDS_BY_TYPE
    /\ \A j \in 1..Len(REQUIRED_FIELDS_BY_TYPE[monitorConfig.type]) :
          LET field == REQUIRED_FIELDS_BY_TYPE[monitorConfig.type][j]
          IN  field \in DOMAIN monitorConfig /\ monitorConfig[field] \notin {Null, ""}
    /\ "interval" \in DOMAIN monitorConfig
          => monitorConfig.interval \in IntervalMin..IntervalMax
    /\ "retryInterval" \in DOMAIN monitorConfig
          => monitorConfig.retryInterval \in IntervalMin..IntervalMax

\* the definition has no name, a known type and lacks a field the type requires
namelessAndLacking(monitorConfig) ==
    /\ "name" \notin DOMAIN monitorConfig
    /\ "type" \in DOMAIN monitorConfig
    /\ monitorConfig.type \in DOMAIN REQUIRED_FIELDS_BY_TYPE
    /\ \E j \in 1..Len(REQUIRED_FIELDS_BY_TYPE[monitorConfig.type]) :
          REQUIRED_FIELDS_BY_TYPE[monitorConfig.type][j] \notin DOMAIN monitorConfig

(***************************************************************************)
(* C19: validateMonitorConfig returns the same for the same definition and  *)
(* leaves the definition as it was; valid is TRUE iff the error list is     *)
(* empty, iff the name is there and not empty, the type is one of the       *)
(* enumeration, every field the type requires is there, not null and not    *)
(* empty, and interval and retryInterval, where given, are in               *)
(* [20, 86400]; a definition with no name that lacks a required field gets  *)
(* both errors, the name's first.                                           *)
(***************************************************************************)
C19_ValidIffWellFormed ==
    \A n \in 1..Len(verdict) :
        /\ verdict[n] = verdict[1]
        /\ verdict[n].valid <=> verdict[n].errors = <<>>
        /\ verdict[n].errors = <<>> <=> wellFormed(checked.monitorConfig)
        /\ namelessAndLacking(checked.monitorConfig)
              => /\ Len(verdict[n].errors) >= 2
                 /\ verdict[n].errors[1].kind = "name is required"
                 /\ \E e \in 2..Len(verdict[n].errors) :
                       verdict[n].errors[e].kind = "Field is required"

(***************************************************************************)
(* C20: the socket handler's callback is called with the result of the one  *)
(* reconciliation the event started: the result's added, updated, removed   *)
(* and errors, and ok iff the result has no error.                          *)
(***************************************************************************)
C20_ReplyIsResult ==
    [][(proc["manual"].pc \in {"done", "threw"} /\ proc'["manual"].pc = "idle")
          => /\ proc["manual"].pc = "done"
             /\ reply' = replyResult(proc["manual"].result)
             /\ reply'.ok <=> proc["manual"].result.errors = <<>>]_vars

\* the common optional fields and their defaults, as the documentation lists them
DOCUMENTED_DEFAULTS ==
    [ active |-> TRUE,
      interval |-> 60,
      retryInterval |-> 60,
      maxretries |-> 0,
      timeout |-> 48,
      resendInterval |-> 0,
      upsideDown |-> FALSE,
      ignoreTls |-> FALSE,
      maxredirects |-> 10,
      accepted_statuscodes |-> Arr(<<"200-299">>),
      method |-> "GET",
      description |-> Null ]

\* this step is the one in which p's await of R.store(bean) returns, the row written
Stores(p) ==
    /\ proc[p].pc = "store"
    /\ proc'[p] # proc[p]
    /\ failures' = failures

\* the rows that this step of p wrote
written(p) ==
    {r \in db' : r.id = (IF proc[p].isNew THEN nextId ELSE proc[p].bean.id)}

\* what a row holds for a documented field: the status codes as their JSON
\* text, and null in a column nothing was ever assigned to
held(row, field) ==
    IF field = "accepted_statuscodes"
       THEN row.accepted_statuscodes_json
       ELSE IF field \in DOMAIN row THEN row[field] ELSE Null

\* what a row is to hold for a documented field of a definition
declaredOrDefault(monitorConfig, field) ==
    LET value == IF field \in DOMAIN monitorConfig
                    THEN monitorConfig[field]
                    ELSE DOCUMENTED_DEFAULTS[field]
    IN  IF field = "accepted_statuscodes" /\ isArray(value) THEN JSONstringify(value) ELSE value

(***************************************************************************)
(* C21: the row a cycle writes for a definition holds, for every common     *)
(* optional field with a documented default, the declared value where the   *)
(* definition declares the field and the default where it does not.         *)
(***************************************************************************)
C21_DefaultsMerge ==
    [][\A p \in Procs :
          Stores(p)
          => \A r \in written(p) :
                \A field \in DOMAIN DOCUMENTED_DEFAULTS :
                    held(r, field) = declaredOrDefault(proc[p].monitors[proc[p].i], field)]_vars

(***************************************************************************)
(* C22: a definition is looked up as an update iff a managed row of the     *)
(* owner has its name, and as an addition otherwise; the store of an update *)
(* counts it as updated and not as added, and leaves the row as the bean    *)
(* says, whether or not any field differs; for an active bean whose id has  *)
(* a handle in the monitor list that handle's task is stopped first, and    *)
(* at the return of the stop the new bean is registered and started.  The   *)
(* store of an addition counts it as added and not as updated.              *)
(***************************************************************************)
C22_UpdateAlwaysExecutes ==
    [][\A p \in Procs :
          LET l == proc[p]
              m == proc'[p]
          IN  /\ (l.pc = "findOne" /\ m.pc = "store")
                 => (m.isNew <=> {r \in ownerManaged(db) : r.name = l.monitors[l.i].name} = {})
              /\ (Stores(p) /\ l.isNew)
                 => /\ m.result.added = l.result.added + 1
                    /\ m.result.updated = l.result.updated
              /\ (Stores(p) /\ ~l.isNew)
                 => /\ m.result.updated = l.result.updated + 1
                    /\ m.result.added = l.result.added
                    /\ written(p) \subseteq {l.bean}
                    /\ (\E r \in db : r.id = l.bean.id) => written(p) = {l.bean}
                    /\ (l.bean.active /\ l.bean.id \in DOMAIN monitorList)
                       => /\ m.pc = "stop"
                          /\ monitorList[l.bean.id] \notin started'
              /\ (l.pc = "stop" /\ m.pc = "start")
                 => /\ monitorList'[l.bean.id] = Bean(l.bean.id, l.cycle, l.i)
                    /\ Bean(l.bean.id, l.cycle, l.i) \in started']_vars

\* C22's case: the update of a row from which no field of the bean differs
\* has been stored and counted, and the task of the row's handle stopped
C22_Witness ==
    \E p \in Procs :
        /\ proc[p].pc = "stop"
        /\ ~proc[p].isNew
        /\ proc[p].bean \in proc[p].rows
        /\ proc[p].bean \in db
        /\ proc[p].result.updated = 1
        /\ proc[p].result.added = 0

(***************************************************************************)
(* C23: the row an update leaves is, but for its id, the current definition *)
(* merged with the defaults and nothing else: no field of it comes from     *)
(* what the row held before.                                                *)
(***************************************************************************)
C23_UpdateOverwrites ==
    [][\A p \in Procs :
          (Stores(p) /\ ~proc[p].isNew)
          => \A r \in written(p) :
                Delete(r, "id")
                  = Delete(configToMonitorBean(proc[p].monitors[proc[p].i], Owner), "id")]_vars

(***************************************************************************)
(* C24: whatever the definition says of user_id, config_managed and id, the *)
(* bean a cycle stores has the id of the managed row of the owner that the  *)
(* lookup found, or none; the store writes one row at most, under that id   *)
(* or a fresh one, with the owner as its user and the managed flag set, and *)
(* leaves every other row as it was.                                        *)
(***************************************************************************)
C24_OwnerFlagAndIdentity ==
    [][\A p \in Procs :
          LET l == proc[p]
              m == proc'[p]
              target == IF l.isNew THEN nextId ELSE l.bean.id
          IN  /\ (l.pc = "findOne" /\ m.pc = "store")
                 => IF m.isNew
                       THEN "id" \notin DOMAIN m.bean
                       ELSE \E r \in ownerManaged(db) :
                               r.name = l.monitors[l.i].name /\ r.id = m.bean.id
              /\ Stores(p)
                 => /\ \A r \in db' \ db :
                          r.id = target /\ r.user_id = Owner /\ r.config_managed = TRUE
                    /\ \A r \in db : r.id # target => r \in db'
                    /\ l.isNew => \A r \in db : r.id # target]_vars

\* C24's case: a definition that says id, user_id and config_managed of
\* another user's row has been stored, as a managed row of the owner under
\* an id of its own, and the other user's row is as it was
C24_Witness ==
    \E p \in Procs :
        /\ proc[p].pc = "start"
        /\ LET monitorConfig == proc[p].monitors[proc[p].i]
           IN  /\ {"id", "user_id", "config_managed"} \subseteq DOMAIN monitorConfig
               /\ monitorConfig.id = otherRow.id
               /\ monitorConfig.user_id = OtherUser
               /\ monitorConfig.config_managed = FALSE
               /\ proc[p].bean.id # monitorConfig.id
        /\ proc[p].bean \in db
        /\ proc[p].bean.user_id = Owner
        /\ proc[p].bean.config_managed = TRUE
        /\ otherRow \in db

\* this step is the one in which p's await of R.trash returns, the row deleted
Trashes(p) ==
    /\ proc[p].pc = "trash"
    /\ proc'[p] # proc[p]
    /\ failures' = failures

(***************************************************************************)
(* C25: a cycle deletes a managed row only when no declared monitor has its *)
(* name and every declared monitor has been set about; the handle           *)
(* registered under the row's id is stopped and taken from the monitor list *)
(* before the delete, the delete is counted in removed, and when the cycle  *)
(* returns no handle is registered under the id of a row it deleted.        *)
(***************************************************************************)
C25_RemovalStep ==
    [][\A p \in Procs :
          LET l == proc[p]
              m == proc'[p]
          IN  /\ db' # db /\ m # l /\ l.chain # "sweep"
                 => \A r \in db \ db' :
                       \/ l.pc = "store" /\ r.id = l.bean.id
                       \/ /\ Trashes(p)
                          /\ r.id = l.existingMonitors[l.k].id
                          /\ r.name \notin configMonitorNames(l.monitors)
                          /\ l.tried = [j \in 1..Len(l.monitors) |-> j]
                          /\ l.i = 0
              /\ Trashes(p)
                 => /\ m.result.removed = l.result.removed + 1
                    /\ db' = {r \in db : r.id # l.existingMonitors[l.k].id}
              /\ (l.pc = "rmStop" /\ m.pc = "trash" /\ failures' = failures)
                 => /\ l.existingMonitors[l.k].id \notin DOMAIN monitorList'
                    /\ l.existingMonitors[l.k].id \in DOMAIN monitorList
                          => monitorList[l.existingMonitors[l.k].id] \notin started
              /\ Returns(p)
                 => \A k \in 1..Len(m.swept) :
                       LET id == m.existingMonitors[m.swept[k]].id
                       IN  (\A r \in db' : r.id # id) => id \notin DOMAIN monitorList']_vars

(***************************************************************************)
(* C26: in every reachable state every managed row of the owner has its     *)
(* interval and its retryInterval within [20, 86400].                       *)
(***************************************************************************)
C26_IntervalsInRange ==
    \A r \in ownerManaged(db) :
        /\ r.interval \in IntervalMin..IntervalMax
        /\ r.retryInterval \in IntervalMin..IntervalMax

(***************************************************************************)
(* C27: when a cycle has returned without an error, no handle is registered *)
(* in the monitor list under the id of a managed row of the owner that is   *)
(* not active.                                                              *)
(***************************************************************************)
C27_InactiveHasNoHandle ==
    \A p \in Procs :
        (proc[p].pc = "done" /\ proc[p].result.errors = <<>>)
        => \A r \in ownerManaged(db) : ~r.active => r.id \notin DOMAIN monitorList

(***************************************************************************)
(* C28: a cycle that passed the validation returns a result in which added, *)
(* updated and the errors of the apply loop add up to the number of         *)
(* declared monitors, each monitor being in one of the three.               *)
(***************************************************************************)
C28_ResultAccounting ==
    [][\A p \in Procs :
          Returns(p)
          => LET result == proc'[p].result
             IN  result.added + result.updated
                   + Len(errorsOf(result.errors, "Error processing monitor"))
                 = Len(proc'[p].monitors)]_vars

(***************************************************************************)
(* C29: whatever calls of startFileWatcher and stopFileWatcher, creations   *)
(* and deletions of the file have happened, at most one watch is open on    *)
(* the directory (there is never more than one on the file: fileWatcher is  *)
(* closed before it is assigned), so that an event of the directory calls   *)
(* one callback.                                                            *)
(***************************************************************************)
C29_WatchersDoNotAccumulate ==
    dirWatchers <= 1

(***************************************************************************)
(* C30: from the return of stopFileWatcher until startFileWatcher is called *)
(* again no step starts a reconciliation or a sweep, and a callback that    *)
(* was in flight ends without an exception unless a collaborator failed.    *)
(***************************************************************************)
C30_StopQuiesces ==
    [][watching = "stopped"
          => /\ inflight'.sync <= inflight.sync
             /\ inflight'.sweep <= inflight.sweep
             /\ inflight'.dirSync <= inflight.dirSync
             /\ failures' = failures => raised' = raised]_vars

(***************************************************************************)
(* C31: while the socket is not logged in, no step calls syncConfigMonitors *)
(* for it, and the step that answers an event of it changes no row, no      *)
(* handle and no task, and answers with ok = false and a message, without   *)
(* the fields that say whether the file exists and where it is.             *)
(***************************************************************************)
C31_LoginGuard ==
    [][("userID" \notin DOMAIN socket)
          => /\ ~(proc["manual"].pc = "idle" /\ proc'["manual"].pc # "idle")
             /\ cycles' = cycles
             /\ (proc' = proc /\ reply' # reply)
                => /\ reply'.ok = FALSE
                   /\ "msg" \in DOMAIN reply'
                   /\ DOMAIN reply' \cap {"exists", "path", "added", "updated", "removed", "errors"} = {}
                   /\ db' = db
                   /\ monitorList' = monitorList
                   /\ started' = started]_vars

\* C31's case: a socket that is not logged in has been answered, while there
\* is a file at the configured path and managed rows of the owner
C31_Witness ==
    /\ "userID" \notin DOMAIN socket
    /\ reply = replyNotLoggedIn
    /\ configFileExists
    /\ ownerManaged(db) # {}
    /\ proc["manual"].pc = "idle"

====
